---- MODULE Spec2Model ----
(***************************************************************************)
(* tap_salesforce/sync.py as a state machine: the bookmark store (`state`  *)
(* in memory, `durable` as last flushed by singer.write_state), the two    *)
(* drivers sync_stream/sync_records and resume_syncing_bulk_query cut into *)
(* steps at the points where the process can be killed, and the record     *)
(* repair fix_record_anytype as an operator.                               *)
(***************************************************************************)
EXTENDS Integers, Sequences, FiniteSets, TLC

\* Bounds of the model.
MaxTime == 2       \* clock readings and replication-key instants are 1..MaxTime
MaxRecs == 2       \* records one sf.query yields at most (Spec)
MaxPasses == 2     \* driver invocations in one behaviour of SpecPasses
MaxTagged == 1     \* records one sf.query yields at most in SpecPasses
MaxBatches == 2    \* batch ids in the bookmarked BatchIDs list
MaxBatchLen == 2   \* records in one batch at most
MaxRuns == 2       \* resume_syncing_bulk_query invocations in SpecResume

Times == 1..MaxTime

VARIABLES
    bound,             \* [recs, passes]: the bounds of the behaviour
    catalog_entry,     \* [replication_key : BOOLEAN]: does the stream have one
    sf,                \* [pk_chunking : BOOLEAN, batches : batch id -> records,
                       \*  values : what a record of sf.query can hold in its
                       \*  replication-key field]
    clock,             \* the wall clock, in the unit time.time()*1000 is read in
    state,             \* the bookmarks of the stream, in memory
    durable,           \* the bookmarks as last flushed by singer.write_state
    pc,                \* position of the process
    stream_version,    \* local of both drivers
    start_time,        \* local of both drivers
    chunked_bookmark,  \* local of sync_records
    current_bookmark,  \* local of resume_syncing_bulk_query
    pending,           \* the part of batch_ids[:] the for loop has not visited
    batch_id,          \* loop variable of resume_syncing_bulk_query
    pulled,            \* records taken from the current result iterator
    rec,               \* loop variable of the record loops
    counter,           \* metrics counter of the invocation
    out,               \* messages written by the current invocation, in order
    err,               \* the exception in flight or raised by the invocation
    emitted,           \* history: (batch, index) -> times emitted, all invocations
    requested,         \* history: batch ids given to get_batch_results, in order
    versions,          \* history: of the invocation before and of this one, the
                       \* version it tags with, whether it wrote a record,
                       \* whether it ran to its end
    state0,            \* history: the bookmarks when the invocation started
    passes,            \* history: invocations started
    marks,             \* history: batch id -> the start (clock reading) of the
                       \* invocation that last drained the batch to its end,
                       \* 0 when none did
    fx_in,             \* fix_record_anytype: the record as it was passed
    fx_rec,            \* fix_record_anytype: the record (changed in place)
    fx_schema,         \* fix_record_anytype: per field, the declared type
    fx_pc              \* fix_record_anytype: "in" before the call, "out" after

vars == <<bound, catalog_entry, sf, clock, state, durable, pc, stream_version,
          start_time, chunked_bookmark, current_bookmark, pending, batch_id,
          pulled, rec, counter, out, err, emitted, requested, versions,
          state0, passes, marks, fx_in, fx_rec, fx_schema, fx_pc>>

config == <<bound, catalog_entry, sf>>
locals == <<stream_version, start_time, chunked_bookmark, current_bookmark,
            pending, batch_id, pulled, rec>>
fx == <<fx_in, fx_rec, fx_schema, fx_pc>>
hist == <<emitted, requested, versions, state0, passes, marks>>

----------------------------------------------------------------------------
\* Values. A timestamp is either its string form or a datetime object; the
\* singer_utils conversions go from one to the other and raise on the wrong
\* kind of argument.

None == [k |-> "none", t |-> 0]
Str(t) == [k |-> "str", t |-> t]
Dt(t) == [k |-> "dt", t |-> t]
TypeError == [k |-> "TypeError", t |-> 0]

\* What a record can hold in its replication-key field besides a timestamp
\* string: nothing (the field is missing), or a text that is no timestamp.
Missing == [k |-> "missing", t |-> 0]
Text == [k |-> "text", t |-> 0]
KeyError == [k |-> "KeyError", t |-> 0]
ParserError == [k |-> "ParserError", t |-> 0]

\* the value is an exception raised in place of a result
Raised(v) == v.k \in {"TypeError", "KeyError", "ParserError"}

\* singer_utils.strptime_with_tz: string -> aware datetime; dateutil's parser
\* raises ParserError (a ValueError) for a string that is no timestamp
strptime_with_tz(v) ==
    CASE v.k = "str" -> Dt(v.t)
      [] v.k = "text" -> ParserError
      [] OTHER -> TypeError

\* singer_utils.strftime: datetime -> canonical string
strftime(v) == IF v.k = "dt" THEN Str(v.t) ELSE TypeError

\* faulty variant: the datetime is formatted, as singer_utils.strftime does
strptime_Formatting(v) == IF v.k = "dt" THEN Str(v.t) ELSE TypeError

\* singer_utils.strptime: datetime.datetime.strptime(string, format); a
\* datetime argument raises TypeError ("argument 1 must be str")
strptime(v) == IF v.k = "str" THEN Dt(v.t) ELSE TypeError

\* singer_utils.now()
now == Dt(clock)

\* int(time.time() * 1000)
time_ms == clock

NoVersion == 0
NoErr == [kind |-> "none", cause |-> "none", stream |-> FALSE]
NoRec == [id |-> 0, batch |-> 0, rk |-> None]

\* The bookmarks: the fields of the stream of catalog_entry (version, cursor:
\* the one named by the replication key, JobHighestBookmarkSeen, BatchIDs),
\* and `others`, what the store holds for the other streams.
\* singer.get_bookmark / singer.write_bookmark(state, tap_stream_id, ...)
get_bookmark(st, field) == st[field]
write_bookmark(st, field, val) == [st EXCEPT ![field] = val]

\* the bookmarks of the other streams, as the store holds them
OtherBookmarks == Str(1)

RecordMessage(r, v, t) ==
    [type |-> "RECORD", record |-> r, version |-> v, time_extracted |-> t]
ActivateVersionMessage(v) ==
    [type |-> "ACTIVATE_VERSION", record |-> NoRec, version |-> v,
     time_extracted |-> None]

\* faulty variant: the bookmarked version is returned for every stream
get_stream_version_Bookmarked(ce, st) ==
    LET bookmarked == get_bookmark(st, "version")
    IN  IF bookmarked # NoVersion THEN bookmarked ELSE time_ms

\* faulty variant: a version is minted on every call
get_stream_version_Minted(ce, st) == time_ms

get_stream_version(ce, st) ==
    LET bookmarked == get_bookmark(st, "version")
        version == IF bookmarked # NoVersion THEN bookmarked ELSE time_ms
    IN  IF ce.replication_key THEN version ELSE time_ms

\* replication_key and singer_utils.strptime_with_tz(rec[replication_key]);
\* rec[replication_key] raises KeyError when the record has no such field
ReplicationKeyValue(r) ==
    IF catalog_entry.replication_key
    THEN IF r.rk = Missing THEN KeyError ELSE strptime_with_tz(r.rk)
    ELSE None

\* faulty variant: the comparison with the start of the pass is missing
InRange_NoBound(replication_key_value, st) ==
    replication_key_value # None

\* the record's value is a timestamp not after the start of the pass
InRange(replication_key_value, st) ==
    /\ replication_key_value # None
    /\ replication_key_value.t <= st.t

\* faulty variant: the chunked branch writes the cursor itself
ChunkedField_Cursor == "cursor"

\* the bookmark field the chunked branch of sync_records writes in the loop
ChunkedField == "JobHighestBookmarkSeen"

\* faulty variant: the non-chunked branch stores the seed, as the chunked one formats it
NewCursor_Seed(r, cb) == strftime(cb)

\* the value the non-chunked branch of sync_records stores as the cursor
NewCursor(r, cb) == r.rk

\* faulty variant: the test is inverted
Unkeyed_Inverted == catalog_entry.replication_key

\* `if not replication_key` at the end of sync_records
Unkeyed == ~catalog_entry.replication_key

\* sf.get_start_date(state, catalog_entry): a timestamp string
StartDates == {Str(t) : t \in Times}

\* what the replication-key field of a record from sf.query can hold
RecordValues == {Str(t) : t \in Times} \cup {Missing, Text}

\* history: an invocation starts; the one before it is kept
Started(vs, v) ==
    (IF vs = <<>> THEN <<>> ELSE <<vs[Len(vs)]>>) \o
    <<[version |-> v, wrote |-> FALSE, ended |-> FALSE]>>

\* history: one more record written by the invocation in progress
Counted(vs) ==
    [vs EXCEPT ![Len(vs)] = [@ EXCEPT !.wrote = TRUE]]

\* history: the invocation in progress ran to its end
Ended(vs) ==
    [vs EXCEPT ![Len(vs)] = [@ EXCEPT !.ended = TRUE]]

ResetLocals ==
    /\ stream_version' = NoVersion
    /\ start_time' = None
    /\ chunked_bookmark' = None
    /\ current_bookmark' = None
    /\ pending' = <<>>
    /\ batch_id' = 0
    /\ pulled' = 0
    /\ rec' = NoRec

----------------------------------------------------------------------------
\* The clock advances between invocations (the drivers read it only when
\* they start), as long as an invocation can follow.
Tick ==
    /\ pc \in {"idle", "done"}
    /\ passes < bound.passes
    /\ clock < MaxTime
    /\ clock' = clock + 1
    /\ UNCHANGED <<config, state, durable, pc, locals, counter, out, err,
                   hist, fx>>

\* The process is killed (or exits after a failure): the memory is lost, the
\* next invocation starts from the flushed bookmarks.
Kill ==
    /\ pc \notin {"idle", "done"}
    /\ pc' = "idle"
    /\ state' = durable
    /\ err' = NoErr
    /\ counter' = 0
    /\ out' = <<>>
    /\ ResetLocals
    /\ UNCHANGED <<config, clock, durable, hist, fx>>

----------------------------------------------------------------------------
\* sync_stream / sync_records

\* sync_stream entered, sync_records up to the for loop
S_Start ==
    /\ pc \in {"idle", "done"}
    /\ passes < bound.passes
    /\ \E sd \in StartDates : chunked_bookmark' = strptime_with_tz(sd)
    /\ stream_version' = get_stream_version(catalog_entry, state)
    /\ start_time' = now
    /\ pc' = "s_for"
    /\ counter' = 0
    /\ pulled' = 0
    /\ out' = <<>>
    /\ err' = NoErr
    /\ passes' = passes + 1
    /\ versions' = Started(versions, stream_version')
    /\ state0' = state
    /\ UNCHANGED <<config, clock, state, durable, current_bookmark, pending,
                   batch_id, rec, emitted, requested, marks, fx>>

\* faulty variant: a record whose replication-key value is after the start
\* of the pass is counted and dropped
S_Pull_Filtered ==
    /\ pc = "s_for"
    /\ pulled < bound.recs
    /\ \E v \in sf.values :
         /\ rec' = [id |-> pulled + 1, batch |-> 0, rk |-> v]
         /\ out' = IF v.k = "str" /\ v.t > start_time.t
                   THEN out
                   ELSE Append(out, RecordMessage(rec', stream_version,
                                                  start_time))
    /\ pulled' = pulled + 1
    /\ counter' = counter + 1
    /\ pc' = "s_bm"
    /\ versions' = Counted(versions)
    /\ UNCHANGED <<config, clock, state, durable, stream_version, start_time,
                   chunked_bookmark, current_bookmark, pending, batch_id, err,
                   emitted, requested, state0, passes, marks, fx>>

\* one record from sf.query: counted, transformed, written
S_Pull ==
    /\ pc = "s_for"
    /\ pulled < bound.recs
    /\ \E v \in sf.values :
         rec' = [id |-> pulled + 1, batch |-> 0, rk |-> v]
    /\ pulled' = pulled + 1
    /\ counter' = counter + 1
    /\ out' = Append(out, RecordMessage(rec', stream_version, start_time))
    /\ pc' = "s_bm"
    /\ versions' = Counted(versions)
    /\ UNCHANGED <<config, clock, state, durable, stream_version, start_time,
                   chunked_bookmark, current_bookmark, pending, batch_id, err,
                   emitted, requested, state0, passes, marks, fx>>

\* faulty variant: the chunked branch takes the value of every record that
\* is not after the start of the pass, as the other branch does
LoopWrite_Latest(r) ==
    LET replication_key_value == ReplicationKeyValue(r)
    IN  IF InRange(replication_key_value, start_time)
        THEN [wrote |-> TRUE,
              chunked_bookmark |->
                  IF sf.pk_chunking THEN strptime_with_tz(r.rk)
                                    ELSE chunked_bookmark,
              state |-> IF sf.pk_chunking
                        THEN write_bookmark(state, ChunkedField,
                                 strftime(strptime_with_tz(r.rk)))
                        ELSE write_bookmark(state, "cursor",
                                 NewCursor(r, chunked_bookmark))]
        ELSE [wrote |-> FALSE, chunked_bookmark |-> chunked_bookmark,
              state |-> state]

\* the bookmark update of record r, short of the flush: whether a bookmark is
\* written, the high-watermark and the bookmarks afterwards
LoopWrite(r) ==
    LET replication_key_value == ReplicationKeyValue(r)
        same == [wrote |-> FALSE, chunked_bookmark |-> chunked_bookmark,
                 state |-> state]
    IN  IF sf.pk_chunking
        THEN IF /\ InRange(replication_key_value, start_time)
                /\ replication_key_value.t > chunked_bookmark.t
             THEN [wrote |-> TRUE,
                   chunked_bookmark |-> strptime_with_tz(r.rk),
                   state |-> write_bookmark(state, ChunkedField,
                                 strftime(strptime_with_tz(r.rk)))]
             ELSE same
        ELSE IF InRange(replication_key_value, start_time)
             THEN [wrote |-> TRUE,
                   chunked_bookmark |-> chunked_bookmark,
                   state |-> write_bookmark(state, "cursor",
                                 NewCursor(r, chunked_bookmark))]
             ELSE same

\* the bookmark update of the record just written; reading the record's
\* replication-key value can raise
S_Bookmark ==
    /\ pc = "s_bm"
    /\ IF Raised(ReplicationKeyValue(rec))
       THEN /\ err' = [kind |-> ReplicationKeyValue(rec).k, cause |-> "none",
                       stream |-> FALSE]
            /\ pc' = "s_raised"
            /\ UNCHANGED <<chunked_bookmark, state, durable>>
       ELSE /\ chunked_bookmark' = LoopWrite(rec).chunked_bookmark
            /\ state' = LoopWrite(rec).state
            /\ durable' = IF LoopWrite(rec).wrote THEN state' ELSE durable
            /\ pc' = "s_for"
            /\ err' = err
    /\ UNCHANGED <<config, clock, stream_version, start_time, current_bookmark,
                   pending, batch_id, pulled, rec, counter, out, hist, fx>>

\* the bookmark of the record just written is set, and singer.write_state
\* raises: nothing is flushed
S_WriteStateFails ==
    /\ pc = "s_bm"
    /\ ~Raised(ReplicationKeyValue(rec))
    /\ LoopWrite(rec).wrote
    /\ chunked_bookmark' = LoopWrite(rec).chunked_bookmark
    /\ state' = LoopWrite(rec).state
    /\ err' = [kind |-> "OSError", cause |-> "none", stream |-> FALSE]
    /\ pc' = "s_raised"
    /\ UNCHANGED <<config, clock, durable, stream_version, start_time,
                   current_bookmark, pending, batch_id, pulled, rec, counter,
                   out, hist, fx>>

\* what sf.query can raise: the domain exception, a subclass of it, or
\* anything else
QueryErrors ==
    {"TapSalesforceException", "TapSalesforceQuotaExceededException",
     "OtherError"}

\* sf.query raises while the loop waits for the next record
S_QueryFails ==
    /\ pc = "s_for"
    /\ \E kind \in QueryErrors :
         err' = [kind |-> kind, cause |-> "none", stream |-> FALSE]
    /\ pc' = "s_raised"
    /\ UNCHANGED <<config, clock, state, durable, locals, counter, out,
                   hist, fx>>

\* the source is exhausted: the end of sync_records
S_PassEnd ==
    /\ pc = "s_for"
    /\ LET unkeyed == Unkeyed
           st1 == IF unkeyed THEN write_bookmark(state, "version", NoVersion)
                             ELSE state
           promoted == strptime(chunked_bookmark)
       IN  /\ out' = IF unkeyed
                     THEN Append(out, ActivateVersionMessage(stream_version))
                     ELSE out
           /\ IF sf.pk_chunking
              THEN IF promoted = TypeError
                   THEN /\ state' = st1
                        /\ err' = [kind |-> "TypeError", cause |-> "none",
                                   stream |-> FALSE]
                        /\ pc' = "s_raised"
                   ELSE /\ state' = write_bookmark(st1, "cursor", promoted)
                        /\ err' = err
                        /\ pc' = "s_ret"
              ELSE /\ state' = st1
                   /\ err' = err
                   /\ pc' = "s_ret"
    /\ UNCHANGED <<config, clock, durable, locals, counter, hist, fx>>

\* faulty variant: sync_stream returns without the final flush
SS_Flush_Skipped ==
    /\ pc = "s_ret"
    /\ pc' = "done"
    /\ versions' = Ended(versions)
    /\ ResetLocals
    /\ UNCHANGED <<config, clock, state, durable, counter, out, err, emitted,
                   requested, state0, passes, marks, fx>>

\* sync_stream after sync_records returned: the final flush
SS_Flush ==
    /\ pc = "s_ret"
    /\ durable' = state
    /\ pc' = "done"
    /\ versions' = Ended(versions)
    /\ ResetLocals
    /\ UNCHANGED <<config, clock, state, counter, out, err, emitted, requested,
                   state0, passes, marks, fx>>

\* `except TapSalesforceException`: the class itself and its subclasses
IsTapSalesforceException(kind) ==
    kind \in {"TapSalesforceException", "TapSalesforceQuotaExceededException"}

\* faulty variant: the base class is raised, whatever the class of ex
Reraise_Base(ex) ==
    IF IsTapSalesforceException(ex.kind)
    THEN [kind |-> "TapSalesforceException", cause |-> "none", stream |-> TRUE]
    ELSE [kind |-> "Exception", cause |-> ex.kind, stream |-> TRUE]

\* what the except clauses raise for ex: type(ex)("Error syncing <stream>:
\* ...") for the domain exception, Exception("Unexpected error syncing
\* <stream>: ...") from ex for any other
Reraise(ex) ==
    IF IsTapSalesforceException(ex.kind)
    THEN [kind |-> ex.kind, cause |-> "none", stream |-> TRUE]
    ELSE [kind |-> "Exception", cause |-> ex.kind, stream |-> TRUE]

\* sync_stream after sync_records returned: singer.write_state raises
SS_WriteStateFails ==
    /\ pc = "s_ret"
    /\ err' = [kind |-> "OSError", cause |-> "none", stream |-> FALSE]
    /\ pc' = "s_raised"
    /\ UNCHANGED <<config, clock, state, durable, locals, counter, out,
                   hist, fx>>

\* sync_stream's except clauses
SS_Except ==
    /\ pc = "s_raised"
    /\ err' = Reraise(err)
    /\ pc' = "failed"
    /\ UNCHANGED <<config, clock, state, durable, locals, counter, out,
                   hist, fx>>

----------------------------------------------------------------------------
\* resume_syncing_bulk_query

\* faulty variant: nothing is removed
Remove_Kept(l, x) == l

\* faulty variant: batch_ids.pop(), the last element is removed
Remove_Last(l, x) == SubSeq(l, 1, Len(l) - 1)

\* list.remove: the list without the first occurrence of x
Remove(l, x) ==
    LET i == CHOOSE i \in 1..Len(l) : l[i] = x /\ \A j \in 1..(i - 1) : l[j] # x
    IN  SubSeq(l, 1, i - 1) \o SubSeq(l, i + 1, Len(l))

\* faulty variant: the loop walks the list it removes from, and so skips the
\* element after each one it removes
LoopList_Live(batch_ids) ==
    [i \in 1..((Len(batch_ids) + 1) \div 2) |-> batch_ids[2 * i - 1]]

\* batch_ids[:], the list the for loop walks
LoopList(batch_ids) == batch_ids

\* up to the for loop: the watermark, the batch ids, the version
R_Start ==
    /\ pc \in {"idle", "done"}
    /\ passes < bound.passes
    /\ get_bookmark(state, "BatchIDs") # <<>>
    /\ \E sd \in StartDates :
         LET seen == get_bookmark(state, "JobHighestBookmarkSeen")
         IN  current_bookmark' =
                 strptime_with_tz(IF seen # None THEN seen ELSE sd)
    /\ pending' = LoopList(get_bookmark(state, "BatchIDs"))
    /\ start_time' = now
    /\ stream_version' = get_stream_version(catalog_entry, state)
    /\ pc' = "r_for"
    /\ counter' = 0
    /\ pulled' = 0
    /\ out' = <<>>
    /\ err' = NoErr
    /\ requested' = <<>>
    /\ passes' = passes + 1
    /\ versions' = Started(versions, stream_version')
    /\ state0' = state
    /\ UNCHANGED <<config, clock, state, durable, chunked_bookmark, batch_id,
                   rec, emitted, marks, fx>>

\* the for loop takes the next batch id and asks for its results
R_NextBatch ==
    /\ pc = "r_for"
    /\ pending # <<>>
    /\ batch_id' = Head(pending)
    /\ pending' = Tail(pending)
    /\ pulled' = 0
    /\ requested' = Append(requested, batch_id')
    /\ pc' = "r_rec"
    /\ UNCHANGED <<config, clock, state, durable, stream_version, start_time,
                   chunked_bookmark, current_bookmark, rec, counter, out, err,
                   emitted, versions, state0, passes, marks, fx>>

\* one record of the batch: counted, transformed, written, the watermark
\* advanced
R_Rec ==
    /\ pc = "r_rec"
    /\ pulled < Len(sf.batches[batch_id])
    /\ rec' = [id |-> pulled + 1, batch |-> batch_id,
               rk |-> Str(sf.batches[batch_id][pulled + 1])]
    /\ pulled' = pulled + 1
    /\ counter' = counter + 1
    /\ out' = Append(out, RecordMessage(rec', stream_version, start_time))
    /\ LET replication_key_value == ReplicationKeyValue(rec')
       IN  current_bookmark' =
               IF /\ InRange(replication_key_value, start_time)
                  /\ replication_key_value.t > current_bookmark.t
               THEN strptime_with_tz(rec'.rk)
               ELSE current_bookmark
    /\ emitted' = [emitted EXCEPT ![<<batch_id, pulled + 1>>] = @ + 1]
    /\ versions' = Counted(versions)
    /\ UNCHANGED <<config, clock, state, durable, pc, stream_version,
                   start_time, chunked_bookmark, pending, batch_id, err,
                   requested, state0, passes, marks, fx>>

\* faulty variant: the watermark is not written when the batch is drained
R_Watermark_Unwritten ==
    /\ pc = "r_rec"
    /\ pulled = Len(sf.batches[batch_id])
    /\ marks' = [marks EXCEPT ![batch_id] = start_time.t]
    /\ pc' = "r_rm"
    /\ UNCHANGED <<config, clock, state, durable, locals, counter, out, err,
                   emitted, requested, versions, state0, passes, fx>>

\* the batch is drained: the watermark is written to the bookmarks
R_Watermark ==
    /\ pc = "r_rec"
    /\ pulled = Len(sf.batches[batch_id])
    /\ state' = write_bookmark(state, "JobHighestBookmarkSeen",
                               strftime(current_bookmark))
    /\ marks' = [marks EXCEPT ![batch_id] = start_time.t]
    /\ pc' = "r_rm"
    /\ UNCHANGED <<config, clock, durable, locals, counter, out, err, emitted,
                   requested, versions, state0, passes, fx>>

\* batch_ids.remove(batch_id): batch_ids is the list inside the bookmarks
R_Remove ==
    /\ pc = "r_rm"
    /\ state' = write_bookmark(state, "BatchIDs",
                               Remove(get_bookmark(state, "BatchIDs"), batch_id))
    /\ pc' = "r_flush"
    /\ UNCHANGED <<config, clock, durable, locals, counter, out, err, hist, fx>>

\* faulty variant: the flush after the batch is left out
R_Flush_Skipped ==
    /\ pc = "r_flush"
    /\ pc' = "r_for"
    /\ UNCHANGED <<config, clock, state, durable, locals, counter, out, err,
                   hist, fx>>

\* singer.write_state(state) after the batch
R_Flush ==
    /\ pc = "r_flush"
    /\ durable' = state
    /\ pc' = "r_for"
    /\ UNCHANGED <<config, clock, state, locals, counter, out, err, hist, fx>>

\* faulty variant: on return the watermark is promoted to the cursor
R_Return_Promoting ==
    /\ pc = "r_for"
    /\ pending = <<>>
    /\ pc' = "done"
    /\ state' = write_bookmark(state, "cursor",
                               get_bookmark(state, "JobHighestBookmarkSeen"))
    /\ versions' = Ended(versions)
    /\ ResetLocals
    /\ UNCHANGED <<config, clock, durable, counter, out, err, emitted,
                   requested, state0, passes, marks, fx>>

\* the for loop is over: return counter
R_Return ==
    /\ pc = "r_for"
    /\ pending = <<>>
    /\ pc' = "done"
    /\ versions' = Ended(versions)
    /\ ResetLocals
    /\ UNCHANGED <<config, clock, state, durable, counter, out, err, emitted,
                   requested, state0, passes, marks, fx>>

----------------------------------------------------------------------------
\* the records of the batches: (batch id, position)
RecIds ==
    {<<b, i>> : b \in DOMAIN sf.batches, i \in 1..MaxBatchLen} \cap
    {x \in (DOMAIN sf.batches) \X (1..MaxBatchLen) : x[2] <= Len(sf.batches[x[1]])}

InitCommon ==
    /\ clock = 1
    /\ durable = state
    /\ pc = "idle"
    /\ stream_version = NoVersion
    /\ start_time = None
    /\ chunked_bookmark = None
    /\ current_bookmark = None
    /\ pending = <<>>
    /\ batch_id = 0
    /\ pulled = 0
    /\ rec = NoRec
    /\ counter = 0
    /\ out = <<>>
    /\ err = NoErr
    /\ emitted = [x \in RecIds |-> 0]
    /\ requested = <<>>
    /\ versions = <<>>
    /\ state0 = state
    /\ passes = 0
    /\ marks = [b \in DOMAIN sf.batches |-> 0]
    /\ fx_in = <<>>
    /\ fx_rec = <<>>
    /\ fx_schema = <<>>
    /\ fx_pc = "off"

Bookmarks ==
    [version : {NoVersion, 1},
     cursor : {None} \cup {Str(t) : t \in Times},
     JobHighestBookmarkSeen : {None} \cup {Str(t) : t \in Times},
     BatchIDs : {<<>>},
     others : {OtherBookmarks}]

\* One sync_stream invocation, from any bookmarks.
Init ==
    /\ bound = [recs |-> MaxRecs, passes |-> 1]
    /\ catalog_entry \in [replication_key : BOOLEAN]
    /\ sf \in [pk_chunking : BOOLEAN, batches : {<<>>},
                values : {RecordValues}]
    /\ state \in Bookmarks
    /\ InitCommon

Next ==
    \/ Tick
    \/ Kill
    \/ S_Start
    \/ S_Pull
    \/ S_Bookmark
    \/ S_WriteStateFails
    \/ S_QueryFails
    \/ S_PassEnd
    \/ SS_Flush
    \/ SS_WriteStateFails
    \/ SS_Except

Spec == Init /\ [][Next]_vars

\* The results of a batch: `len` records, their replication-key values rising
\* or falling from one record of the job to the next.
Batch(b, len, order) ==
    [i \in 1..len |->
        LET g == (b - 1) * MaxBatchLen + (i - 1)
        IN  IF order = "asc" THEN (g % MaxTime) + 1 ELSE MaxTime - (g % MaxTime)]

\* The jobs: every batch is full but one, which has any length.
BatchJobs ==
    {[b \in 1..MaxBatches |->
         Batch(b, IF b = short THEN len ELSE MaxBatchLen, order)] :
        short \in 1..MaxBatches, len \in 0..MaxBatchLen,
        order \in {"asc", "desc"}}

\* resume_syncing_bulk_query on a bookmarked job, killed and invoked again.
InitResume ==
    /\ bound = [recs |-> 0, passes |-> MaxRuns]
    /\ catalog_entry \in [replication_key : BOOLEAN]
    /\ sf \in [pk_chunking : {TRUE}, batches : BatchJobs,
                values : {RecordValues}]
    /\ state \in [version : {1},
                  cursor : {Str(1)},
                  JobHighestBookmarkSeen : {None, Str(1)},
                  BatchIDs : {[i \in 1..MaxBatches |-> i]},
                  others : {OtherBookmarks}]
    /\ InitCommon

NextResume ==
    \/ Tick
    \/ Kill
    \/ R_Start
    \/ R_NextBatch
    \/ R_Rec
    \/ R_Watermark
    \/ R_Remove
    \/ R_Flush
    \/ R_Return

SpecResume == InitResume /\ [][NextResume]_vars

----------------------------------------------------------------------------
\* Properties of one sync_records pass (Spec).

MaxOf(S) == CHOOSE x \in S : \A y \in S : y <= x

\* positions in `out` of the record messages
Recs == {i \in 1..Len(out) : out[i].type = "RECORD"}
RkAt(i) == out[i].record.rk.t

\* positions of the records whose replication-key value is not after the
\* start of the pass
InRangeRecs ==
    {i \in Recs : /\ out[i].record.rk.k = "str"
                  /\ RkAt(i) <= out[i].time_extracted.t}

KeyedPlain == catalog_entry.replication_key /\ ~sf.pk_chunking

\* the source yielded the records in non-decreasing replication-key order
SourceOrdered == \A i, j \in Recs : i < j => RkAt(i) <= RkAt(j)

\* C2 as claimed: after a completed non-chunked keyed pass the persisted
\* cursor bookmark is the maximum replication-key value among the emitted
\* records not after pass start, whatever the order of the source.
C2_BookmarkIsMaximum ==
    (pc = "done" /\ KeyedPlain /\ InRangeRecs # {}) =>
        durable.cursor = Str(MaxOf({RkAt(i) : i \in InRangeRecs}))

\* C2 amended: after a completed non-chunked keyed pass the persisted cursor
\* bookmark is the replication-key value of the last emitted record that is
\* not after pass start (the bookmark of pass start when there is none);
\* that is the maximum when the source yields in non-decreasing order.
C2_BookmarkIsLastInRange ==
    (pc = "done" /\ KeyedPlain) =>
        /\ durable.cursor = IF InRangeRecs = {} THEN state0.cursor
                            ELSE out[MaxOf(InRangeRecs)].record.rk
        /\ (SourceOrdered /\ InRangeRecs # {}) =>
               durable.cursor = Str(MaxOf({RkAt(i) : i \in InRangeRecs}))

C2_Witness ==
    /\ pc = "done" /\ KeyedPlain
    /\ Len(out) = 2 /\ InRangeRecs = {1, 2}
    /\ RkAt(1) > RkAt(2)
    /\ durable.cursor = out[2].record.rk

\* the step writes the cursor bookmark (the restart of a killed or failed
\* process, which reads the flushed bookmarks again, is no write)
CursorWritten ==
    state.cursor # None /\ state'.cursor # state.cursor /\ pc' # "idle"

\* the source yields no record from before the cursor stored at pass start
RespectsCursor ==
    state0.cursor # None => \A i \in Recs : RkAt(i) >= state0.cursor.t

\* C3 as claimed: every write to the cursor bookmark stores a value >= the
\* value it replaces, whatever the order in which the source yields the
\* records (none of them from before the stored cursor).
C3_CursorNeverDecreases ==
    [][(CursorWritten /\ RespectsCursor) =>
            (state'.cursor.k = "str" /\ state'.cursor.t >= state.cursor.t)]_vars

\* the pass so far is in non-decreasing order and not before the stored cursor
PassOrdered == SourceOrdered /\ RespectsCursor

\* C3 amended: while the source yields records in non-decreasing
\* replication-key order, none before the stored cursor, every write to the
\* cursor bookmark stores a value >= the value it replaces.
C3_OrderedWritesNeverDecrease ==
    [][(CursorWritten /\ PassOrdered) =>
            (state'.cursor.k = "str" /\ state'.cursor.t >= state.cursor.t)]_vars

C3_Witness ==
    /\ pc = "s_for" /\ KeyedPlain /\ PassOrdered
    /\ Len(out) = 2 /\ InRangeRecs = {1, 2}
    /\ RkAt(1) < RkAt(2)
    /\ state0.cursor # None
    /\ state.cursor = out[2].record.rk

\* C4: in a chunked pass, until the record loop has finished, the cursor
\* bookmark, in memory and as flushed, is the one of pass start; so are the
\* version and BatchIDs bookmarks: only JobHighestBookmarkSeen changes.
C4_CursorFrozenInChunkedLoop ==
    (sf.pk_chunking /\ pc \in {"s_for", "s_bm"}) =>
        /\ state.cursor = state0.cursor
        /\ durable.cursor = state0.cursor
        /\ state.version = state0.version
        /\ durable.version = state0.version
        /\ state.BatchIDs = state0.BatchIDs
        /\ durable.BatchIDs = state0.BatchIDs

C4_Witness ==
    /\ sf.pk_chunking /\ pc = "s_for"
    /\ state0.cursor # None
    /\ durable.JobHighestBookmarkSeen # state0.JobHighestBookmarkSeen

\* C6 as claimed: a chunked pass that has consumed all source records ends
\* without error, the cursor bookmark then being the string form of the
\* high-watermark.
C6_ChunkedPassPromotes ==
    sf.pk_chunking =>
        /\ err.kind # "TypeError"
        /\ err.cause # "TypeError"
        /\ pc = "s_ret" => state.cursor = strftime(chunked_bookmark)

\* C7: a completed pass over a stream without replication key wrote exactly
\* one activate-version message, as its last message, with the version of
\* its records, and left the version bookmark cleared; a pass over a stream
\* with a replication key writes no activate-version message.
C7_ActivateVersionEndsUnkeyedPass ==
    /\ (pc \in {"s_ret", "done"} /\ ~catalog_entry.replication_key) =>
           /\ Len(out) >= 1
           /\ out[Len(out)].type = "ACTIVATE_VERSION"
           /\ \A i \in 1..(Len(out) - 1) :
                  /\ out[i].type = "RECORD"
                  /\ out[i].version = out[Len(out)].version
           /\ state.version = NoVersion
    /\ catalog_entry.replication_key =>
           \A i \in 1..Len(out) : out[i].type # "ACTIVATE_VERSION"

C7_Witness ==
    /\ pc = "done" /\ ~catalog_entry.replication_key
    /\ Len(out) = 3
    /\ state0.version # NoVersion
    /\ durable.version = NoVersion

\* C11: when sync_records has raised, sync_stream does not return: it
\* raises, with the stream name in the message, an exception of the class
\* of the original when that is TapSalesforceException or a subclass of it,
\* and otherwise an Exception whose cause is the original; an invocation
\* that returned raised nothing.
C11_FailureTranslated ==
    [][/\ pc = "s_raised" =>
            /\ pc' \in {"failed", "idle"}
            /\ pc' = "failed" =>
                   /\ err'.stream
                   /\ IF err.kind \in {"TapSalesforceException",
                                       "TapSalesforceQuotaExceededException"}
                      THEN err'.kind = err.kind
                      ELSE err'.kind = "Exception" /\ err'.cause = err.kind
       /\ pc = "failed" => pc' \in {"failed", "idle"}
       /\ pc' = "done" => err' = NoErr]_vars

C11_Witness ==
    /\ pc = "failed" /\ err.stream
    /\ err.kind = "TapSalesforceQuotaExceededException"
    /\ Len(out) >= 1

\* C12 as claimed: whatever a record holds (also one whose replication-key
\* field is missing or is no timestamp), once it is written the pass goes on
\* to the next record: the only failure after a record is one of the flush.
C12_RecordContentNeverFails ==
    [][pc = "s_bm" =>
           \/ pc' \in {"s_for", "idle"}
           \/ pc' = "s_raised" /\ err'.kind = "OSError"]_vars

C18_EveryRecordOnceInOrder ==
    /\ pc \in {"s_for", "s_bm", "s_ret"} =>
           /\ Cardinality(Recs) = pulled
           /\ \A i \in Recs :
                  /\ out[i].version = stream_version
                  /\ out[i].time_extracted = start_time
    /\ pc \in {"s_for", "s_bm", "s_ret", "done"} =>
           /\ counter = Cardinality(Recs)
           /\ Recs = 1..counter
           /\ \A i \in Recs : out[i].record.id = i
           /\ \A i, j \in Recs :
                  /\ out[i].version = out[j].version
                  /\ out[i].time_extracted = out[j].time_extracted

C18_Witness ==
    /\ pc = "done" /\ KeyedPlain
    /\ counter = 2 /\ Len(out) = 2
    /\ out[1].record.rk.t > out[1].time_extracted.t
    /\ out[2].record.rk.t <= out[2].time_extracted.t
    /\ durable.cursor = out[2].record.rk

----------------------------------------------------------------------------
\* Properties of resume_syncing_bulk_query under kills (SpecResume).

Range(l) == {l[i] : i \in 1..Len(l)}

\* C1 as claimed: when resume_syncing_bulk_query, killed at arbitrary points
\* and invoked again from the flushed bookmarks, has finally run to its end,
\* every record of every batch has been emitted exactly once.
C1_ExactlyOnce ==
    pc = "done" => \A x \in RecIds : emitted[x] = 1

\* C1 amended: when it has finally run to its end, every record of every
\* batch has been emitted at least once, and at most once per invocation:
\* the records of a batch that was not yet flushed as removed when the
\* process was killed are emitted again.
C1_AtLeastOnce ==
    /\ pc = "done" => \A x \in RecIds : emitted[x] >= 1
    /\ \A x \in RecIds : emitted[x] <= passes

C1_Witness ==
    /\ pc = "done" /\ passes = 2
    /\ durable.BatchIDs = <<>>
    /\ \E x \in RecIds : emitted[x] = 2
    /\ \E x \in RecIds : emitted[x] = 1

\* C5: an invocation requests and emits only batches that are in the flushed
\* BatchIDs list: the batch being drained and the batches still to visit are
\* all in it.
C5_OnlyListedBatches ==
    /\ pc = "r_rec" => batch_id \in Range(durable.BatchIDs)
    /\ pc \in {"r_for", "r_rec", "r_rm", "r_flush"} =>
           Range(pending) \subseteq Range(durable.BatchIDs)

C5_Witness ==
    /\ passes = 2 /\ pc = "r_rec" /\ pulled = 1
    /\ durable.BatchIDs = <<2>> /\ batch_id = 2
    /\ <<1, 1>> \in RecIds
    /\ \A x \in RecIds : x[1] = 1 => emitted[x] = 1

\* C14: after a batch is drained, JobHighestBookmarkSeen is written, then
\* the batch id is removed from BatchIDs, then the bookmarks are flushed. So
\* in every flushed state, wherever the process is killed, a batch id that
\* is no longer in the flushed BatchIDs has had all its records emitted,
\* and on a stream with a replication key the flushed
\* JobHighestBookmarkSeen is at least every replication-key value of that
\* batch that was not after the start of the invocation that drained it.
C14_CompletedBatchKept ==
    /\ pc = "r_rm" =>
           /\ state.JobHighestBookmarkSeen = Str(current_bookmark.t)
           /\ batch_id \in Range(state.BatchIDs)
           /\ batch_id \in Range(durable.BatchIDs)
    /\ pc = "r_flush" =>
           /\ state.JobHighestBookmarkSeen = Str(current_bookmark.t)
           /\ batch_id \notin Range(state.BatchIDs)
           /\ batch_id \in Range(durable.BatchIDs)
    /\ \A b \in DOMAIN sf.batches :
           b \notin Range(durable.BatchIDs) =>
               /\ \A i \in 1..Len(sf.batches[b]) : emitted[<<b, i>>] >= 1
               /\ marks[b] >= 1
               /\ catalog_entry.replication_key =>
                      /\ durable.JobHighestBookmarkSeen.k = "str"
                      /\ \A i \in 1..Len(sf.batches[b]) :
                             sf.batches[b][i] <= marks[b] =>
                                 durable.JobHighestBookmarkSeen.t >=
                                     sf.batches[b][i]

C14_Witness ==
    /\ pc = "idle" /\ passes = 1
    /\ catalog_entry.replication_key
    /\ durable.BatchIDs = <<2>>
    /\ sf.batches[1] = <<1, 2>>
    /\ marks[1] = 1
    /\ state0.JobHighestBookmarkSeen = None
    /\ durable.JobHighestBookmarkSeen = Str(1)
    /\ emitted[<<1, 2>>] = 1

\* C16: no step of resume_syncing_bulk_query changes the cursor bookmark,
\* the version bookmark or the bookmarks of the other streams, in memory or
\* as flushed; when it has drained the last batch and returned they are
\* those of its start, the watermark is not promoted to the cursor.
C16_ResumeWritesOnlyJobFields ==
    [][/\ state'.cursor = state.cursor
       /\ state'.version = state.version
       /\ state'.others = state.others
       /\ durable'.cursor = durable.cursor
       /\ durable'.version = durable.version
       /\ durable'.others = durable.others
       /\ pc' = "done" =>
              /\ state'.cursor = state0'.cursor
              /\ state'.version = state0'.version
              /\ state'.others = state0'.others]_vars

C16_Witness ==
    /\ pc = "done" /\ catalog_entry.replication_key
    /\ durable.BatchIDs = <<>>
    /\ durable.JobHighestBookmarkSeen = Str(2)
    /\ durable.cursor = Str(1)
    /\ state0.BatchIDs # <<>>

----------------------------------------------------------------------------
\* resume_syncing_bulk_query left to run: the process is not killed, the
\* source does not fail, every batch is finite. The function is sequential
\* code, so a started invocation takes its next step as long as it has one.
NextRun ==
    \/ Tick
    \/ R_Start
    \/ R_NextBatch
    \/ R_Rec
    \/ R_Watermark
    \/ R_Remove
    \/ R_Flush
    \/ R_Return

RunStep ==
    R_NextBatch \/ R_Rec \/ R_Watermark \/ R_Remove \/ R_Flush \/ R_Return

SpecRun == InitResume /\ [][NextRun]_vars /\ WF_vars(RunStep)

\* C20: an invocation of resume_syncing_bulk_query that is left to run
\* returns; it has then asked for the results of each batch id of the
\* bookmarked BatchIDs list once, in the order of the list, none skipped,
\* every record of every batch was emitted once, and the BatchIDs list, in
\* memory and as flushed, is empty.
C20_ResumeTerminates ==
    /\ [](pc \in {"r_for", "r_rec", "r_rm", "r_flush"} =>
             /\ Len(requested) <= Len(state0.BatchIDs)
             /\ requested = SubSeq(state0.BatchIDs, 1, Len(requested)))
    /\ [](pc = "done" =>
             /\ requested = state0.BatchIDs
             /\ state.BatchIDs = <<>>
             /\ durable.BatchIDs = <<>>
             /\ \A x \in RecIds : emitted[x] = 1)
    /\ (pc = "r_for") ~> (pc = "done")

C20_Witness ==
    /\ pc = "done" /\ passes = 1
    /\ requested = <<1, 2>>
    /\ Len(sf.batches[1]) = 0 /\ Len(sf.batches[2]) = 2
    /\ counter = 2
    /\ durable.BatchIDs = <<>>

----------------------------------------------------------------------------
\* Successive invocations of both drivers on one stream.
InitPasses ==
    /\ bound = [recs |-> MaxTagged, passes |-> MaxPasses]
    /\ catalog_entry \in [replication_key : BOOLEAN]
    /\ sf \in [pk_chunking : BOOLEAN,
               batches : {[b \in 1..MaxBatches |-> Batch(b, 1, "asc")]},
               values : {{Str(1)}}]
    /\ state \in [version : {NoVersion, 1},
                  cursor : {None},
                  JobHighestBookmarkSeen : {None},
                  BatchIDs : {[i \in 1..MaxBatches |-> i]},
                  others : {OtherBookmarks}]
    /\ InitCommon

NextPasses ==
    \/ Next
    \/ R_Start
    \/ R_NextBatch
    \/ R_Rec
    \/ R_Watermark
    \/ R_Remove
    \/ R_Flush
    \/ R_Return

SpecPasses == InitPasses /\ [][NextPasses]_vars

BothWrote == Len(versions) = 2 /\ versions[1].wrote /\ versions[2].wrote

\* C8 as claimed: two consecutive passes over a stream without replication
\* key, each run to its end, tag their records with different versions.
C8_ConsecutivePassesDiffer ==
    (~catalog_entry.replication_key /\ BothWrote
        /\ versions[1].ended /\ versions[2].ended) =>
        versions[1].version # versions[2].version

\* C8 amended: every pass over a stream without replication key tags its
\* records with the clock reading of its start, whatever version is
\* bookmarked; two passes differ in it when the reading differs.
C8_VersionIsClockReading ==
    ~catalog_entry.replication_key =>
        /\ \A i \in 1..Len(out) : out[i].type = "RECORD" =>
               out[i].version = out[i].time_extracted.t
        /\ Len(versions) >= 1 /\ out # <<>> /\ out[1].type = "RECORD" =>
               versions[Len(versions)].version = out[1].time_extracted.t

C8_Witness ==
    /\ ~catalog_entry.replication_key /\ BothWrote
    /\ state0.version # NoVersion
    /\ out # <<>> /\ out[1].type = "RECORD"
    /\ out[1].version # state0.version
    /\ versions[1].version # versions[2].version

\* C9 as claimed: the records that two successive passes over a stream with
\* a replication key write carry one and the same version.
C9_KeyedPassesShareVersion ==
    (catalog_entry.replication_key /\ BothWrote) =>
        versions[1].version = versions[2].version

\* C9 amended: for a stream with a replication key and a bookmarked version,
\* the records of all passes (sync_records and resume_syncing_bulk_query)
\* carry the bookmarked version, which no pass changes; with no version
\* bookmarked every pass tags its records with the clock reading of its own
\* start, and no pass bookmarks it.
C9_BookmarkedVersionIsKept ==
    catalog_entry.replication_key =>
        /\ state.version = state0.version /\ durable.version = state0.version
        /\ state0.version # NoVersion =>
               /\ \A i \in 1..Len(versions) :
                      versions[i].version = state0.version
               /\ \A i \in 1..Len(out) : out[i].version = state0.version
        /\ state0.version = NoVersion =>
               \A i \in 1..Len(out) : out[i].version = out[i].time_extracted.t

C9_Witness ==
    /\ catalog_entry.replication_key /\ BothWrote
    /\ state0.version # NoVersion
    /\ out # <<>> /\ out[1].record.batch # 0
    /\ out[1].time_extracted.t # out[1].version
    /\ versions[1].version = versions[2].version

----------------------------------------------------------------------------
\* One invocation of either driver, from any bookmarks.
InitDrivers ==
    /\ bound = [recs |-> MaxRecs, passes |-> 1]
    /\ catalog_entry \in [replication_key : BOOLEAN]
    /\ sf \in [pk_chunking : BOOLEAN,
                batches : {[b \in 1..MaxBatches |->
                               Batch(b, MaxBatchLen, order)] :
                           order \in {"asc", "desc"}},
                values : {RecordValues}]
    /\ state \in [version : {1},
                  cursor : {None, Str(1)},
                  JobHighestBookmarkSeen : {None} \cup {Str(t) : t \in Times},
                  BatchIDs : {<<>>, [i \in 1..MaxBatches |-> i]},
                  others : {OtherBookmarks}]
    /\ InitCommon

SpecDrivers == InitDrivers /\ [][NextPasses]_vars

\* C13: the flush of a unit of progress comes before the next unit is asked
\* for. When resume_syncing_bulk_query asks for the results of a batch, the
\* bookmarks are flushed as they are in memory, every batch asked for
\* before is flushed as removed from BatchIDs, and the flushed
\* JobHighestBookmarkSeen is the watermark after those batches. When
\* sync_records, not chunked, on a stream with a replication key, takes a
\* record from the source, the bookmarks are flushed as they are in memory,
\* and the flushed cursor is the value of the record before it when that
\* was not after the start of the pass.
C13_FlushBeforeNextUnit ==
    [][/\ (pc = "r_for" /\ pc' = "r_rec") =>
            /\ durable = state
            /\ \A i \in 1..Len(requested) :
                   requested[i] \notin Range(durable.BatchIDs)
            /\ requested # <<>> =>
                   durable.JobHighestBookmarkSeen = Str(current_bookmark.t)
       /\ (pc = "s_for" /\ pc' = "s_bm" /\ KeyedPlain) =>
            /\ durable = state
            /\ (rec.rk.k = "str" /\ rec.rk.t <= start_time.t) =>
                   durable.cursor = rec.rk]_vars

C13_Witness ==
    /\ pc = "r_rec" /\ requested = <<1, 2>>
    /\ durable.BatchIDs = <<2>>
    /\ durable.JobHighestBookmarkSeen # state0.JobHighestBookmarkSeen
    /\ durable = state

Max2(a, b) == IF a >= b THEN a ELSE b

\* the replication-key instant of record r when the stream has a
\* replication key and the instant is not after the start of the pass, else 0
Qualifying(r) ==
    IF /\ catalog_entry.replication_key
       /\ r.rk.k = "str"
       /\ r.rk.t <= start_time.t
    THEN r.rk.t ELSE 0

----------------------------------------------------------------------------
\* fix_record_anytype. A value is a tag and its text.

Val(tag, text) == [tag |-> tag, v |-> text]
ValueError == Val("ValueError", "")

\* the texts int() parses
IntTexts == {"42"}

\* float(): the texts it parses, and how the result prints
FloatText(text) ==
    CASE text = "42" -> "42.0"
      [] text = "3.14" -> "3.14"
      [] OTHER -> ""

int(x) ==
    IF x.tag = "str" /\ x.v \in IntTexts THEN Val("int", x.v) ELSE ValueError

float(x) ==
    IF x.tag = "str" /\ FloatText(x.v) # ""
    THEN Val("float", FloatText(x.v)) ELSE ValueError

\* try_cast(val, coercion), `coerced` being what coercion(val) gives or raises
try_cast(val, coerced) ==
    IF coerced = ValueError THEN val ELSE coerced

\* the value the loop body stores for an untyped field holding v
fix_value(v) ==
    LET val1 == try_cast(v, int(v))
        val2 == try_cast(v, float(v))
        val3 == IF v \in {Val("str", "true"), Val("str", "false")}
                THEN Val("bool", v.v) ELSE val2
    IN  IF v = Val("str", "") THEN Val("null", "") ELSE val3

\* schema[k] = "none": the field's schema entry has no "type"
fix_record_anytype(r, schema) ==
    [k \in DOMAIN r |-> IF schema[k] = "none" THEN fix_value(r[k]) ELSE r[k]]

FX_Call ==
    /\ fx_pc = "in"
    /\ fx_rec' = fix_record_anytype(fx_rec, fx_schema)
    /\ fx_pc' = "out"
    /\ UNCHANGED <<config, clock, state, durable, pc, locals, counter, out,
                   err, hist, fx_in, fx_schema>>

Fields == {"a", "b"}
Texts == {"42", "3.14", "true", "false", "", "hello"}

InitFix ==
    /\ bound = [recs |-> 0, passes |-> 0]
    /\ catalog_entry = [replication_key |-> FALSE]
    /\ sf = [pk_chunking |-> FALSE, batches |-> <<>>, values |-> {}]
    /\ state \in [version : {NoVersion}, cursor : {None},
                  JobHighestBookmarkSeen : {None}, BatchIDs : {<<>>},
                  others : {OtherBookmarks}]
    /\ clock = 1
    /\ durable = state
    /\ pc = "idle"
    /\ stream_version = NoVersion
    /\ start_time = None
    /\ chunked_bookmark = None
    /\ current_bookmark = None
    /\ pending = <<>>
    /\ batch_id = 0
    /\ pulled = 0
    /\ rec = NoRec
    /\ counter = 0
    /\ out = <<>>
    /\ err = NoErr
    /\ emitted = <<>>
    /\ requested = <<>>
    /\ versions = <<>>
    /\ state0 = state
    /\ passes = 0
    /\ marks = <<>>
    /\ fx_in \in [Fields -> {Val("str", t) : t \in Texts}]
    /\ fx_rec = fx_in
    /\ fx_schema \in [Fields -> {"none", "string"}]
    /\ fx_pc = "in"

NextFix == FX_Call

SpecFix == InitFix /\ [][NextFix]_vars

\* what the repair of an untyped text is to be
Repaired(text) ==
    CASE text = "42" -> Val("int", "42")
      [] text = "3.14" -> Val("float", "3.14")
      [] text = "true" -> Val("bool", "true")
      [] text = "false" -> Val("bool", "false")
      [] text = "" -> Val("null", "")
      [] OTHER -> Val("str", text)

\* C10 as claimed: fix_record_anytype turns the untyped texts "42", "3.14",
\* "true", "false", "" and "hello" into integer 42, float 3.14, true, false,
\* null and "hello", and leaves the fields with a declared type as they are.
C10_AnytypeRepair ==
    fx_pc = "out" =>
        \A k \in Fields :
            fx_rec[k] = IF fx_schema[k] = "none" THEN Repaired(fx_in[k].v)
                        ELSE fx_in[k]

====
